---- MODULE Spec2Model ----
(***************************************************************************)
(* Space-station inventory: placement planner, retrieval planner, waste    *)
(* identification / return planning, simulation clock and event log.       *)
(*                                                                         *)
(* Conventions of the model                                                *)
(*  - lengths, masses, priorities and dates are integers; a date is a day  *)
(*    number and `now` is the wall clock the services read;                *)
(*  - Python's None is NoneInt (-1) for an optional integer or date,       *)
(*    NoneId ("None") for an optional identifier and NoPosition for an     *)
(*    optional position, so that every field keeps one type;               *)
(*  - the primary key of an item is written itemId everywhere (the source  *)
(*    spells it id, itemId and item_id in different layers);               *)
(*  - a request handler is one atomic action: the handlers share a single  *)
(*    database session per request and the model serialises requests.      *)
(***************************************************************************)
EXTENDS Integers, Sequences, FiniteSets, TLC

VARIABLES
    items,              \* item store: itemId -> row of table "items"
    containers,         \* container store: containerId -> row of table "containers"
    logs,               \* table "logs", in insertion order
    container_states,   \* PlacementService.container_states
    space_utilization,  \* PlacementService.space_utilization
    now,                \* wall clock (day number)
    last,               \* the last request and its response
    nops                \* number of requests served so far

vars == <<items, containers, logs, container_states, space_utilization, now, last, nops>>

(***************************************************************************)
(* Bounds of the model                                                     *)
(***************************************************************************)
MaxOps == 3
MaxSearchOps == 4
MaxReturnOps == 6
MaxUndockOps == 4
MaxBatch == 2
MaxUsages == 2
MaxDays == 2
MaxNow == 1

(***************************************************************************)
(* Program constants                                                       *)
(***************************************************************************)
DatetimeMax == 9999
Infinity == 1000000

NoneInt == -1
NoneId == "None"

(***************************************************************************)
(* Geometry                                                                *)
(***************************************************************************)
Coordinates(w, d, h) == [width |-> w, depth |-> d, height |-> h]

Position(s, e) == [startCoordinates |-> s, endCoordinates |-> e]

NoPosition == Position(Coordinates(-1, -1, -1), Coordinates(-1, -1, -1))

Box(x, y, z, w, d, h) == Position(Coordinates(x, y, z), Coordinates(x + w, y + d, z + h))

ItemPlacement(id, cid, pos) == [itemId |-> id, containerId |-> cid, position |-> pos]

NoPlacement == ItemPlacement(NoneId, NoneId, NoPosition)

PlacementStep(n, id, fromC, fromP, toC, toP) ==
    [step |-> n, action |-> "move", itemId |-> id, fromContainer |-> fromC,
     fromPosition |-> fromP, toContainer |-> toC, toPosition |-> toP]

PosWidth(p) == p.endCoordinates.width - p.startCoordinates.width
PosDepth(p) == p.endCoordinates.depth - p.startCoordinates.depth
PosHeight(p) == p.endCoordinates.height - p.startCoordinates.height
PosVolume(p) == PosWidth(p) * PosDepth(p) * PosHeight(p)

Min(a, b) == IF a <= b THEN a ELSE b
Max(a, b) == IF a >= b THEN a ELSE b

\* F applied to the value of v (v is worked out once, as an assignment does)
Let1(v, F(_)) == CHOOSE r \in {F(x) : x \in {v}} : TRUE

\* the least element of a non-empty set of integers
Least(S) == CHOOSE i \in S : \A j \in S : i <= j

NoRepeat(s) == \A i, j \in 1..Len(s) : i # j => s[i] # s[j]

\* the sequences without repetition over S of length 0..n
Arrangements(S, n) == {s \in UNION {[1..k -> S] : k \in 0..n} : NoRepeat(s)}

\* PlacementService._check_overlap: the two boxes share interior volume
_check_overlap(pos1, pos2) ==
    ~ (  pos1.endCoordinates.width <= pos2.startCoordinates.width
      \/ pos1.startCoordinates.width >= pos2.endCoordinates.width
      \/ pos1.endCoordinates.depth <= pos2.startCoordinates.depth
      \/ pos1.startCoordinates.depth >= pos2.endCoordinates.depth
      \/ pos1.endCoordinates.height <= pos2.startCoordinates.height
      \/ pos1.startCoordinates.height >= pos2.endCoordinates.height )

\* PlacementService._is_position_valid
_is_position_valid(position, container_state) ==
    \A k \in 1..Len(container_state) :
        ~ _check_overlap(position, container_state[k].position)

\* a scan with the depth loop innermost and the width loop around it
RECURSIVE ScanFrom_depth_innermost(_, _, _, _, _, _)
ScanFrom_depth_innermost(item, container, container_state, x, y, z) ==
    IF z + item.height > container.height THEN NoPosition
    ELSE IF x + item.width > container.width
         THEN ScanFrom_depth_innermost(item, container, container_state, 0, 0, z + 1)
    ELSE IF y + item.depth > container.depth
         THEN ScanFrom_depth_innermost(item, container, container_state, x + 1, 0, z)
    ELSE IF _is_position_valid(Box(x, y, z, item.width, item.depth, item.height),
                               container_state)
         THEN Box(x, y, z, item.width, item.depth, item.height)
    ELSE ScanFrom_depth_innermost(item, container, container_state, x, y + 1, z)

\* the three nested while loops of _find_position_in_container, resumed at
\* the anchor (x, y, z): x innermost, then y (depth), z (height) outermost
RECURSIVE ScanFrom(_, _, _, _, _, _)
ScanFrom(item, container, container_state, x, y, z) ==
    IF z + item.height > container.height THEN NoPosition
    ELSE IF y + item.depth > container.depth
         THEN ScanFrom(item, container, container_state, 0, 0, z + 1)
    ELSE IF x + item.width > container.width
         THEN ScanFrom(item, container, container_state, 0, y + 1, z)
    ELSE IF _is_position_valid(Box(x, y, z, item.width, item.depth, item.height),
                               container_state)
         THEN Box(x, y, z, item.width, item.depth, item.height)
    ELSE ScanFrom(item, container, container_state, x + 1, y, z)

\* PlacementService._find_position_in_container, against the occupied boxes
\* container_state = self.container_states.get(container.id, [])
_find_position_in_container(item, container, container_state) ==
    IF \/ item.width > container.width
       \/ item.depth > container.depth
       \/ item.height > container.height
    THEN NoPosition
    ELSE ScanFrom(item, container, container_state, 0, 0, 0)

\* PlacementService._get_possible_rotations
_get_possible_rotations(item) ==
    LET w == item.width
        d == item.depth
        h == item.height
        R(a, b, c) == [item EXCEPT !.width = a, !.depth = b, !.height = c]
    IN  << R(w, d, h), R(w, h, d), R(d, w, h), R(d, h, w), R(h, w, d), R(h, d, w) >>

(***************************************************************************)
(* Placement planner (PlacementService)                                    *)
(***************************************************************************)
Volume(item) == item.width * item.depth * item.height

\* the sort key of _prepare_items: (-priority, expiry_date or datetime.max, -volume)
SortKey(item) ==
    << 0 - item.priority,
       IF item.expiry_date = NoneInt THEN DatetimeMax ELSE item.expiry_date,
       0 - Volume(item) >>

\* Python's tuple order on two sort keys: a < b
KeyLess(a, b) ==
    \/ a[1] < b[1]
    \/ a[1] = b[1] /\ a[2] < b[2]
    \/ a[1] = b[1] /\ a[2] = b[2] /\ a[3] < b[3]

\* sorted() / list.sort() on a list of [key, value] records: stable, so an
\* element goes behind the elements that do not compare greater than it
RECURSIVE SortedByKey(_)
SortedByKey(s) ==
    IF Len(s) = 0 THEN <<>>
    ELSE LET head == SortedByKey(SubSeq(s, 1, Len(s) - 1))
             x == s[Len(s)]
             n == Cardinality({i \in 1..Len(head) : ~ KeyLess(x.key, head[i].key)})
         IN  SubSeq(head, 1, n) \o <<x>> \o SubSeq(head, n + 1, Len(head))

Values(s) == [k \in 1..Len(s) |-> s[k].value]

\* _prepare_items with the sort left out (the items stay in request order)
_prepare_items_unsorted(request_items) == request_items

\* PlacementService._prepare_items
_prepare_items(request_items) ==
    Values(SortedByKey([k \in 1..Len(request_items) |->
                          [key |-> SortKey(request_items[k]), value |-> request_items[k]]]))

\* PlacementService._init_space_utilization
_init_space_utilization(su, request_containers) ==
    [c \in DOMAIN su |->
        IF \E k \in 1..Len(request_containers) : request_containers[k].id = c
        THEN 0 ELSE su[c]]

\* PlacementService._update_space_utilization
_update_space_utilization(su, placement) ==
    IF placement.containerId \notin DOMAIN su THEN su
    ELSE [su EXCEPT ![placement.containerId] = @ + PosVolume(placement.position)]

\* PlacementService._calculate_utilization
_calculate_utilization(su, container_id) ==
    IF container_id \in DOMAIN su THEN su[container_id] ELSE 0

\* PlacementService._update_container_state
_update_container_state(cs, placement) ==
    [cs EXCEPT ![placement.containerId] =
        Append(@, [itemId |-> placement.itemId, position |-> placement.position])]

\* the first rotation of item, in the order of _get_possible_rotations, that
\* has a free position in container; 0 when none has
FirstRotation(item, container, container_state) ==
    LET rots == _get_possible_rotations(item)
        ok == {r \in 1..Len(rots) :
                 _find_position_in_container(rots[r], container, container_state) # NoPosition}
    IN  IF ok = {} THEN 0 ELSE Least(ok)

\* the per-item placement pass with the containers taken in request order,
\* whatever their zone
_attempt_placement_input_order(item, request_containers, cs) ==
    LET ok == {k \in 1..Len(request_containers) :
                 FirstRotation(item, request_containers[k], cs[request_containers[k].id]) # 0}
    IN  IF ok = {} THEN NoPlacement
        ELSE LET c == request_containers[Least(ok)]
                 r == FirstRotation(item, c, cs[c.id])
             IN  ItemPlacement(item.itemId, c.id,
                    _find_position_in_container(_get_possible_rotations(item)[r], c, cs[c.id]))

\* PlacementService._attempt_placement: the per-item placement pass.  The
\* containers of the item's preferred zone come first, then the others, each
\* set in request order; in a container the first rotation with a free
\* position is taken.
_attempt_placement(item, request_containers, cs) ==
    LET preferred == SelectSeq(request_containers, LAMBDA c : c.zone = item.preferred_zone)
        other == SelectSeq(request_containers, LAMBDA c : c.zone # item.preferred_zone)
    IN  _attempt_placement_input_order(item, preferred \o other, cs)

\* the anchor of p comes before the anchor of q in (height, depth, width) order
AnchorLess(p, q) ==
    LET a == p.startCoordinates
        b == q.startCoordinates
    IN  \/ a.height < b.height
        \/ a.height = b.height /\ a.depth < b.depth
        \/ a.height = b.height /\ a.depth = b.depth /\ a.width < b.width

\* an occupied box seen as an item of the same dimensions
AsItem(entry, zone) ==
    [itemId |-> entry.itemId, width |-> PosWidth(entry.position),
     depth |-> PosDepth(entry.position), height |-> PosHeight(entry.position),
     preferred_zone |-> zone]

\* the result of a rearrangement strategy, with the occupied boxes it leaves
StrategyResult(ok, steps, placement, util, cs) ==
    [success |-> ok, steps |-> steps, placement |-> placement, new_util |-> util, cs |-> cs]

\* PlacementService._find_compact_position: the first free position of the
\* item's box against the other boxes of the container, when its anchor comes
\* before the item's current anchor; None otherwise
_find_compact_position(existing_item, others, container) ==
    LET p == _find_position_in_container(AsItem(existing_item, NoneId), container, others)
    IN  IF p # NoPosition /\ AnchorLess(p, existing_item.position) THEN p ELSE NoPosition

\* the for loop of _compact_items from its k-th item on: current_items is the
\* list held in container_states, changed in place
RECURSIVE CompactLoop(_, _, _, _)
CompactLoop(k, current_items, steps, container) ==
    IF k > Len(current_items) THEN [current_items |-> current_items, steps |-> steps]
    ELSE LET existing_item == current_items[k]
             others == SelectSeq(current_items, LAMBDA i : i # existing_item)
         IN  Let1(_find_compact_position(existing_item, others, container),
                  LAMBDA new_position :
             IF new_position # NoPosition
             THEN Let1([current_items EXCEPT ![k].position = new_position],
                       LAMBDA moved :
                  Let1(Append(steps, PlacementStep(Len(steps) + 1, existing_item.itemId,
                                 container.id, existing_item.position,
                                 container.id, new_position)),
                       LAMBDA steps1 : CompactLoop(k + 1, moved, steps1, container)))
             ELSE CompactLoop(k + 1, current_items, steps, container))

\* PlacementService._compact_items
_compact_items(item, container, cs, su) ==
    Let1(CompactLoop(1, cs[container.id], <<>>, container), LAMBDA loop :
    Let1([cs EXCEPT ![container.id] = loop.current_items], LAMBDA cs1 :
    Let1(_find_position_in_container(item, container, loop.current_items),
         LAMBDA new_position :
        IF new_position # NoPosition
        THEN StrategyResult(TRUE, loop.steps,
                 ItemPlacement(item.itemId, container.id, new_position),
                 _calculate_utilization(su, container.id), cs1)
        ELSE StrategyResult(FALSE, <<>>, NoPlacement, Infinity, cs1))))

\* the boxes of a container lie inside it and do not overlap one another
LayoutValid(layout, container) ==
    /\ \A k \in 1..Len(layout) :
          /\ layout[k].position.startCoordinates.width >= 0
          /\ layout[k].position.startCoordinates.depth >= 0
          /\ layout[k].position.startCoordinates.height >= 0
          /\ layout[k].position.endCoordinates.width <= container.width
          /\ layout[k].position.endCoordinates.depth <= container.depth
          /\ layout[k].position.endCoordinates.height <= container.height
    /\ \A i, j \in 1..Len(layout) :
          i < j => ~ _check_overlap(layout[i].position, layout[j].position)

RECURSIVE SumHeights(_, _)
SumHeights(layout, S) ==
    IF S = {} THEN 0
    ELSE LET k == Least(S) IN PosHeight(layout[k].position) + SumHeights(layout, S \ {k})

\* the boxes of equal footprint (width x depth) put in one column: the first
\* box of a footprint stays, the later ones are stacked on it along height
Stacked(layout) ==
    [k \in 1..Len(layout) |->
        LET same == {i \in 1..Len(layout) :
                       /\ PosWidth(layout[i].position) = PosWidth(layout[k].position)
                       /\ PosDepth(layout[i].position) = PosDepth(layout[k].position)}
            first == layout[Least(same)].position.startCoordinates
            below == {i \in same : i < k}
        IN  [layout[k] EXCEPT !.position =
                Box(first.width, first.depth, first.height + SumHeights(layout, below),
                    PosWidth(layout[k].position), PosDepth(layout[k].position),
                    PosHeight(layout[k].position))]]

RECURSIVE MoveSteps(_, _, _, _)
MoveSteps(before, after, k, container_id) ==
    IF k > Len(before) THEN <<>>
    ELSE LET rest == MoveSteps(before, after, k + 1, container_id)
         IN  IF before[k].position = after[k].position THEN rest
             ELSE <<PlacementStep(0, before[k].itemId, container_id, before[k].position,
                                  container_id, after[k].position)>> \o rest

Numbered(steps) == [k \in 1..Len(steps) |-> [steps[k] EXCEPT !.step = k]]

\* PlacementService._stack_similar_items: all or nothing
_stack_similar_items(item, container, cs, su) ==
    Let1(cs[container.id], LAMBDA before :
    Let1(Stacked(before), LAMBDA after :
    Let1(_find_position_in_container(item, container, after), LAMBDA new_position :
        IF after # before /\ LayoutValid(after, container) /\ new_position # NoPosition
        THEN StrategyResult(TRUE, Numbered(MoveSteps(before, after, 1, container.id)),
                 ItemPlacement(item.itemId, container.id, new_position),
                 _calculate_utilization(su, container.id),
                 [cs EXCEPT ![container.id] = after])
        ELSE StrategyResult(FALSE, <<>>, NoPlacement, Infinity, cs))))

\* the boxes of layout whose item has a priority below limit, by ascending
\* priority (the priority is the one of the item store; a box of an item the
\* store does not hold is not evicted)
RECURSIVE ByPriority(_, _, _)
ByPriority(layout, S, store) ==
    IF S = {} THEN <<>>
    ELSE LET m == CHOOSE i \in S : \A j \in S :
                     \/ store[layout[i].itemId].priority < store[layout[j].itemId].priority
                     \/ /\ store[layout[i].itemId].priority = store[layout[j].itemId].priority
                        /\ i <= j
         IN  <<layout[m]>> \o ByPriority(layout, S \ {m}, store)

RECURSIVE DemoteLoop(_, _, _, _, _, _, _)
DemoteLoop(k, candidates, item, container, others, cs, steps) ==
    IF k > Len(candidates) THEN StrategyResult(FALSE, <<>>, NoPlacement, Infinity, cs)
    ELSE LET e == candidates[k]
         IN  Let1(_attempt_placement(AsItem(e, NoneId), others, cs), LAMBDA to :
             IF to = NoPlacement
             THEN DemoteLoop(k + 1, candidates, item, container, others, cs, steps)
             ELSE Let1([cs EXCEPT
                          ![container.id] = SelectSeq(@, LAMBDA i : i # e),
                          ![to.containerId] = Append(@, [itemId |-> e.itemId,
                                                         position |-> to.position])],
                       LAMBDA cs1 :
                  Let1(Append(steps, PlacementStep(Len(steps) + 1, e.itemId, container.id,
                                         e.position, to.containerId, to.position)),
                       LAMBDA steps1 :
                  Let1(_find_position_in_container(item, container, cs1[container.id]),
                       LAMBDA new_position :
                     IF new_position # NoPosition
                     THEN StrategyResult(TRUE, steps1,
                              ItemPlacement(item.itemId, container.id, new_position), 0, cs1)
                     ELSE DemoteLoop(k + 1, candidates, item, container, others,
                                     cs1, steps1)))))

\* PlacementService._move_low_priority_items: all or nothing
_move_low_priority_items(item, container, request_containers, cs, su, store) ==
    LET layout == cs[container.id]
        lower == {k \in 1..Len(layout) :
                    /\ layout[k].itemId \in DOMAIN store
                    /\ store[layout[k].itemId].priority < item.priority}
        others == SelectSeq(request_containers, LAMBDA c : c.id # container.id)
    IN  Let1(DemoteLoop(1, ByPriority(layout, lower, store), item, container, others,
                        cs, <<>>),
             LAMBDA r :
        IF r.success
        THEN [r EXCEPT !.new_util = _calculate_utilization(su, container.id)]
        ELSE StrategyResult(FALSE, <<>>, NoPlacement, Infinity, cs))

\* PlacementService._try_rearrangement_strategies: the three strategies run
\* one after the other on the same container_states; the first result of the
\* smallest utilization is kept
_try_rearrangement_strategies(item, container, request_containers, cs, su, store) ==
    Let1(StrategyResult(FALSE, <<>>, NoPlacement, Infinity, cs), LAMBDA b0 :
    Let1(_compact_items(item, container, cs, su), LAMBDA r1 :
    Let1(IF r1.success /\ r1.new_util < b0.new_util THEN r1 ELSE b0, LAMBDA b1 :
    Let1(_stack_similar_items(item, container, r1.cs, su), LAMBDA r2 :
    Let1(IF r2.success /\ r2.new_util < b1.new_util THEN r2 ELSE b1, LAMBDA b2 :
    Let1(_move_low_priority_items(item, container, request_containers, r2.cs, su, store),
         LAMBDA r3 :
    Let1(IF r3.success /\ r3.new_util < b2.new_util THEN r3 ELSE b2, LAMBDA b3 :
        [b3 EXCEPT !.cs = r3.cs])))))))

\* the for loop of _optimize_rearrangement from the k-th container on
RECURSIVE RearrangeLoop(_, _, _, _, _, _, _)
RearrangeLoop(k, item, request_containers, cs, su, store, best) ==
    IF k > Len(request_containers) THEN [best EXCEPT !.cs = cs]
    ELSE Let1(_try_rearrangement_strategies(item, request_containers[k],
                  request_containers, cs, su, store),
              LAMBDA r :
         Let1(IF r.success /\ r.new_util < best.new_util THEN r ELSE best,
              LAMBDA best1 :
              RearrangeLoop(k + 1, item, request_containers, r.cs, su, store, best1)))

\* PlacementService._optimize_rearrangement
_optimize_rearrangement(item, request_containers, cs, su, store) ==
    RearrangeLoop(1, item, request_containers, cs, su, store,
                  StrategyResult(FALSE, <<>>, NoPlacement, Infinity, cs))

\* the for loop of optimize_placement from the k-th sorted item on
RECURSIVE PlaceLoop(_, _, _, _, _)
PlaceLoop(k, sorted_items, request_containers, store, acc) ==
    IF k > Len(sorted_items) THEN acc
    ELSE LET item == sorted_items[k]
         IN  Let1(_attempt_placement(item, request_containers, acc.cs), LAMBDA placement :
             IF placement # NoPlacement
             THEN Let1([acc EXCEPT !.placements = Append(@, placement),
                                   !.cs = _update_container_state(@, placement),
                                   !.su = _update_space_utilization(@, placement)],
                       LAMBDA acc1 :
                       PlaceLoop(k + 1, sorted_items, request_containers, store, acc1))
             ELSE Let1(_optimize_rearrangement(item, request_containers, acc.cs, acc.su,
                                               store),
                       LAMBDA r :
                  Let1(IF r.success
                       THEN [acc EXCEPT !.rearrangements = @ \o r.steps,
                                        !.placements = Append(@, r.placement),
                                        !.cs = _update_container_state(r.cs, r.placement),
                                        !.su = _update_space_utilization(@, r.placement)]
                       ELSE [acc EXCEPT !.cs = r.cs],
                       LAMBDA acc1 :
                       PlaceLoop(k + 1, sorted_items, request_containers, store, acc1))))

\* PlacementService.optimize_placement
optimize_placement(request_items, request_containers, cs, su, store) ==
    Let1(_prepare_items(request_items), LAMBDA sorted_items :
    Let1([cs |-> cs, su |-> _init_space_utilization(su, request_containers),
          placements |-> <<>>, rearrangements |-> <<>>],
         LAMBDA acc : PlaceLoop(1, sorted_items, request_containers, store, acc)))

(***************************************************************************)
(* Stores: the rows the CSV files and the requests of the model carry      *)
(***************************************************************************)
ItemIds == {"i1", "i2", "i3"}
ContainerIds == {"cA", "cB"}

Container(id, zone, w, d, h) ==
    [id |-> id, zone |-> zone, width |-> w, depth |-> d, height |-> h]

\* the containers file
ContainerRows ==
    [c \in ContainerIds |->
        IF c = "cA" THEN Container("cA", "Lab", 2, 2, 1)
        ELSE Container("cB", "Storage", 2, 1, 1)]

\* the dimensions a placement request may state for a container
RequestContainers ==
    { ContainerRows["cA"], ContainerRows["cB"],
      Container("cA", "Lab", 1, 2, 1), Container("cA", "Lab", 2, 2, 2) }

\* a row of the items file
ItemRow(id, w, d, h, mass, priority, expiry, limit, zone) ==
    [itemId |-> id, width |-> w, depth |-> d, height |-> h, mass |-> mass,
     priority |-> priority, expiry_date |-> expiry, usage_limit |-> limit,
     preferred_zone |-> zone]

ItemRows ==
    [i \in ItemIds |->
        IF i = "i1" THEN ItemRow("i1", 1, 1, 1, 5, 10, NoneInt, 2, "Storage")
        ELSE IF i = "i2" THEN ItemRow("i2", 2, 1, 1, 4, 90, 1, NoneInt, "Lab")
        ELSE ItemRow("i3", 2, 2, 1, 2, 10, NoneInt, 0, "Lab")]

\* the positions a Place request may state
PlacePositions ==
    { Box(0, 0, 0, 1, 1, 1), Box(1, 0, 0, 1, 1, 1), Box(1, 1, 0, 1, 1, 1),
      Box(0, 1, 0, 2, 1, 1) }

\* CSVHandler.import_items: the row of table "items" made from a file row
ImportedItem(row) ==
    [itemId |-> row.itemId, width |-> row.width, depth |-> row.depth,
     height |-> row.height, mass |-> row.mass, priority |-> row.priority,
     expiry_date |-> row.expiry_date, usage_limit |-> row.usage_limit,
     uses_remaining |-> row.usage_limit, preferred_zone |-> row.preferred_zone,
     container_id |-> NoneId, position |-> NoPosition, is_waste |-> FALSE]

\* schemas.Item: the item of a placement request
RequestItem(id) ==
    [itemId |-> id, width |-> ItemRows[id].width, depth |-> ItemRows[id].depth,
     height |-> ItemRows[id].height, priority |-> ItemRows[id].priority,
     expiry_date |-> ItemRows[id].expiry_date, usage_limit |-> ItemRows[id].usage_limit,
     preferred_zone |-> ItemRows[id].preferred_zone]

\* models.Log
Log(action_type, item_id, reason) ==
    [action_type |-> action_type, item_id |-> item_id, reason |-> reason]

\* LoggingService.add_log (the row is committed at once)
add_log(log, action_type, item_id, reason) == Append(log, Log(action_type, item_id, reason))

\* the ids of a set of items in the order a query returns them
RECURSIVE InIdOrder(_)
InIdOrder(S) ==
    IF S = {} THEN <<>>
    ELSE LET m == CHOOSE i \in S : \A j \in S :
                     i = j \/ (i = "i1") \/ (i = "i2" /\ j = "i3")
         IN  <<m>> \o InIdOrder(S \ {m})

\* a request is served
MaxScanOps == 3

\* the longest side of an item given to the position scan
MaxSide == 2

Served == nops' = nops + 1

\* fewer than n requests have been served
Within(n) == nops < n

(***************************************************************************)
(* The state after start-up: the database file holds the containers file,  *)
(* no log, and either no item or the items file as imported by an earlier   *)
(* run; the services are freshly constructed                               *)
(***************************************************************************)
Init ==
    /\ items \in { [i \in {} |-> ImportedItem(ItemRows["i1"])],
                   [i \in ItemIds |-> ImportedItem(ItemRows[i])] }
    /\ containers = ContainerRows
    /\ logs = <<>>
    /\ container_states = [c \in ContainerIds |-> <<>>]
    /\ space_utilization = [c \in {} |-> 0]
    /\ now = 0
    /\ last = [op |-> "start"]
    /\ nops = 0

\* the wall clock advances
Tick ==
    /\ now < MaxNow
    /\ now' = now + 1
    /\ UNCHANGED <<items, containers, logs, container_states, space_utilization, last, nops>>

\* an import that empties the log along with the items table
ImportItems_clearing_logs ==
    /\ Served
    /\ items' = [i \in ItemIds |-> ImportedItem(ItemRows[i])]
    /\ logs' = <<>>
    /\ last' = [op |-> "ImportItems"]
    /\ UNCHANGED <<containers, container_states, space_utilization, now>>

\* POST /api/import/items (CSVHandler.import_items): a full replace
ImportItems ==
    /\ Served
    /\ items' = [i \in ItemIds |-> ImportedItem(ItemRows[i])]
    /\ last' = [op |-> "ImportItems"]
    /\ UNCHANGED <<containers, logs, container_states, space_utilization, now>>

\* placement_recommendations: the rows of the placed items get their
\* container and position, in the order of the placements
RECURSIVE StorePlacements(_, _, _)
StorePlacements(store, placements, k) ==
    IF k > Len(placements) THEN store
    ELSE LET p == placements[k]
         IN  StorePlacements(
                 IF p.itemId \in DOMAIN store
                 THEN [store EXCEPT ![p.itemId].container_id = p.containerId,
                                    ![p.itemId].position = p.position]
                 ELSE store,
                 placements, k + 1)

\* placement_recommendations that reports every item of the request as unplaced
unplaced_items_all(request_items, placements) ==
    [k \in 1..Len(request_items) |-> request_items[k].itemId]

\* placement_recommendations: the ids of the request that have no placement
unplaced_items(request_items, placements) ==
    LET placed_item_ids == {placements[k].itemId : k \in 1..Len(placements)}
    IN  SelectSeq([k \in 1..Len(request_items) |-> request_items[k].itemId],
                  LAMBDA i : i \notin placed_item_ids)

\* the call of optimize_placement by placement_recommendations in the
\* current state of the service and of the store
Optimized(request_items, request_containers) ==
    optimize_placement(request_items, request_containers, container_states,
        [c \in DOMAIN space_utilization \cup
               {request_containers[k].id : k \in 1..Len(request_containers)} |->
            IF c \in DOMAIN space_utilization THEN space_utilization[c] ELSE 0],
        items)

\* POST /api/placement (placement_recommendations)
PlaceBatch(request_items, request_containers) ==
    /\ Served
    /\ \A k \in 1..Len(request_containers) : request_containers[k].id \in DOMAIN containers
    /\ \E r \in {Optimized(request_items, request_containers)} :
           /\ container_states' = r.cs
           /\ space_utilization' = r.su
           /\ items' = StorePlacements(items, r.placements, 1)
           /\ last' = [op |-> "PlaceBatch",
                       items |-> request_items,
                       containers |-> request_containers,
                       placements |-> r.placements,
                       rearrangements |-> r.rearrangements,
                       unplacedItems |-> unplaced_items(request_items, r.placements)]
    /\ UNCHANGED <<containers, logs, now>>

\* schemas.RetrievalStep
RetrievalStep(n, action, item_id) == [step |-> n, action |-> action, itemId |-> item_id]

\* _check_perpendicular_overlap with the four comparisons made strict
\* (rectangles that only touch overlap)
_check_perpendicular_overlap_touching(target_start, target_end, item_start, item_end) ==
    ~ (  item_end.width < target_start.width
      \/ item_start.width > target_end.width
      \/ item_end.height < target_start.height
      \/ item_start.height > target_end.height )

\* SearchService._check_perpendicular_overlap
_check_perpendicular_overlap(target_start, target_end, item_start, item_end) ==
    ~ (  item_end.width <= target_start.width
      \/ item_start.width >= target_end.width
      \/ item_end.height <= target_start.height
      \/ item_start.height >= target_end.height )

\* SearchService._find_blocking_items
_find_blocking_items(store, target_item) ==
    IF target_item.container_id = NoneId \/ target_item.position = NoPosition THEN <<>>
    ELSE LET container_items ==
                 InIdOrder({i \in DOMAIN store :
                              /\ store[i].container_id = target_item.container_id
                              /\ i # target_item.itemId
                              /\ ~ store[i].is_waste})
             blocks(i) ==
                 /\ store[i].position # NoPosition
                 /\ store[i].position.startCoordinates.depth
                        < target_item.position.startCoordinates.depth
                 /\ _check_perpendicular_overlap(
                        target_item.position.startCoordinates,
                        target_item.position.endCoordinates,
                        store[i].position.startCoordinates,
                        store[i].position.endCoordinates)
             blocking_items == SelectSeq(container_items, blocks)
         IN  Values(SortedByKey([k \in 1..Len(blocking_items) |->
                 [key |-> << store[blocking_items[k]].position.startCoordinates.depth,
                             store[blocking_items[k]].priority, 0 >>,
                  value |-> blocking_items[k]]]))

\* _calculate_retrieval_steps that puts the blocking items back in the order
\* of their removal
_calculate_retrieval_steps_same_order(store, target_item) ==
    IF target_item.position = NoPosition \/ target_item.container_id = NoneId THEN <<>>
    ELSE LET found == _find_blocking_items(store, target_item)
             blocking_items ==
                 Values(SortedByKey([k \in 1..Len(found) |->
                     [key |-> << store[found[k]].priority, 0, 0 >>, value |-> found[k]]]))
             n == Len(blocking_items)
         IN  [k \in 1..n |-> RetrievalStep(k, "remove", blocking_items[k])]
             \o << RetrievalStep(n + 1, "retrieve", target_item.itemId) >>
             \o [k \in 1..n |-> RetrievalStep(n + 1 + k, "place", blocking_items[k])]

\* SearchService._calculate_retrieval_steps
_calculate_retrieval_steps(store, target_item) ==
    IF target_item.position = NoPosition \/ target_item.container_id = NoneId THEN <<>>
    ELSE LET found == _find_blocking_items(store, target_item)
             blocking_items ==
                 Values(SortedByKey([k \in 1..Len(found) |->
                     [key |-> << store[found[k]].priority, 0, 0 >>, value |-> found[k]]]))
             n == Len(blocking_items)
         IN  [k \in 1..n |-> RetrievalStep(k, "remove", blocking_items[k])]
             \o << RetrievalStep(n + 1, "retrieve", target_item.itemId) >>
             \o [k \in 1..n |-> RetrievalStep(n + 1 + k, "place", blocking_items[n + 1 - k])]

\* GET /api/search?itemId= (SearchService.search_item)
Search(item_id) ==
    /\ Served
    /\ last' = IF item_id \notin DOMAIN items
               THEN [op |-> "Search", item_id |-> item_id, found |-> FALSE,
                     retrievalSteps |-> <<>>]
               ELSE [op |-> "Search", item_id |-> item_id, found |-> TRUE,
                     retrievalSteps |-> _calculate_retrieval_steps(items, items[item_id])]
    /\ UNCHANGED <<items, containers, logs, container_states, space_utilization, now>>

\* a Place that takes the item it stows back into use
Place_unflagging(item_id, container_id, position) ==
    /\ Served
    /\ IF item_id \notin DOMAIN items
       THEN /\ last' = [op |-> "Place", item_id |-> item_id, success |-> FALSE]
            /\ UNCHANGED <<items, logs>>
       ELSE /\ items' = [items EXCEPT ![item_id].container_id = container_id,
                                      ![item_id].position = position,
                                      ![item_id].is_waste = FALSE]
            /\ logs' = Append(logs, [action_type |-> "placement", item_id |-> item_id,
                                     reason |-> "None"])
            /\ last' = [op |-> "Place", item_id |-> item_id, success |-> TRUE]
    /\ UNCHANGED <<containers, container_states, space_utilization, now>>

\* POST /api/place (SearchService.update_item_location)
Place(item_id, container_id, position) ==
    /\ Served
    /\ IF item_id \notin DOMAIN items
       THEN /\ last' = [op |-> "Place", item_id |-> item_id, success |-> FALSE]
            /\ UNCHANGED <<items, logs>>
       ELSE /\ items' = [items EXCEPT ![item_id].container_id = container_id,
                                      ![item_id].position = position]
            /\ logs' = add_log(logs, "placement", item_id, "None")
            /\ last' = [op |-> "Place", item_id |-> item_id, success |-> TRUE]
    /\ UNCHANGED <<containers, container_states, space_utilization, now>>

\* log_retrieval that takes a use without clamping at 0
log_retrieval_uses_unclamped(uses_remaining) == uses_remaining - 1

\* SearchService.log_retrieval: the new uses_remaining
log_retrieval_uses(uses_remaining) == Max(0, uses_remaining - 1)

\* a Retrieve that takes the item out of its container
Retrieve_unplacing(item_id) ==
    /\ Served
    /\ IF item_id \notin DOMAIN items
       THEN /\ last' = [op |-> "Retrieve", item_id |-> item_id, success |-> FALSE]
            /\ UNCHANGED <<items, logs>>
       ELSE LET item == items[item_id]
                uses == IF item.usage_limit = NoneInt THEN item.uses_remaining
                        ELSE log_retrieval_uses(item.uses_remaining)
            IN  /\ last' = [op |-> "Retrieve", item_id |-> item_id, success |-> TRUE]
                /\ items' = [items EXCEPT ![item_id].uses_remaining = uses,
                                          ![item_id].is_waste = @ \/ (item.usage_limit # NoneInt /\ uses = 0),
                                          ![item_id].container_id = NoneId,
                                          ![item_id].position = NoPosition]
                /\ logs' = IF item.usage_limit = NoneInt THEN logs
                           ELSE IF uses = 0
                           THEN add_log(add_log(logs, "retrieval", item_id, "None"),
                                        "disposal", item_id, "Out of Uses")
                           ELSE add_log(logs, "retrieval", item_id, "None")
    /\ UNCHANGED <<containers, container_states, space_utilization, now>>

\* POST /api/retrieve (SearchService.log_retrieval)
Retrieve(item_id) ==
    /\ Served
    /\ IF item_id \notin DOMAIN items
       THEN /\ last' = [op |-> "Retrieve", item_id |-> item_id, success |-> FALSE]
            /\ UNCHANGED <<items, logs>>
       ELSE LET item == items[item_id]
                uses == log_retrieval_uses(item.uses_remaining)
                log1 == add_log(logs, "retrieval", item_id, "None")
            IN  /\ last' = [op |-> "Retrieve", item_id |-> item_id, success |-> TRUE]
                /\ IF item.usage_limit = NoneInt
                   THEN UNCHANGED <<items, logs>>
                   ELSE IF uses = 0
                   THEN /\ items' = [items EXCEPT ![item_id].uses_remaining = uses,
                                                  ![item_id].is_waste = TRUE]
                        /\ logs' = add_log(log1, "disposal", item_id, "Out of Uses")
                   ELSE /\ items' = [items EXCEPT ![item_id].uses_remaining = uses]
                        /\ logs' = log1
    /\ UNCHANGED <<containers, container_states, space_utilization, now>>

\* schemas.SimulationRequest
SimulationRequest(num_of_days, to_timestamp, usages) ==
    [num_of_days |-> num_of_days, to_timestamp |-> to_timestamp,
     items_to_be_used_per_day |-> usages]

\* simulate_time accepts the request: one of the two time modes is set
\* (num_of_days is tested first; 0 counts as not set)
TimeModeSet(request) ==
    \/ request.num_of_days # NoneInt /\ request.num_of_days # 0
    \/ request.to_timestamp # NoneInt

target_date(request) ==
    IF request.num_of_days # NoneInt /\ request.num_of_days # 0
    THEN now + request.num_of_days
    ELSE request.to_timestamp

\* n retrieval log rows of the simulated days of one item
RECURSIVE UsageLogs(_, _, _)
UsageLogs(log, item_id, n) ==
    IF n <= 0 THEN log
    ELSE UsageLogs(add_log(log, "retrieval", item_id, "None"), item_id, n - 1)

\* simulate_time: the item was depleted during the simulation
DepletedNow(old_uses, new_uses) == new_uses = 0 /\ old_uses > 0

\* the usage loop of simulate_time from the k-th usage record on;
\* acc.failed: old_uses - None raised (total_uses is num_of_days, which is
\* None in to_timestamp mode)
RECURSIVE UsageLoop(_, _, _)
UsageLoop(k, request, acc) ==
    IF k > Len(request.items_to_be_used_per_day) \/ acc.failed THEN acc
    ELSE LET item_id == request.items_to_be_used_per_day[k]
             total_uses == request.num_of_days
         IN  IF item_id \notin DOMAIN acc.items \/ acc.items[item_id].is_waste
             THEN UsageLoop(k + 1, request, acc)
             ELSE LET item == acc.items[item_id]
                      old_uses == item.uses_remaining
                      new_uses == Max(0, old_uses - total_uses)
                      depleted == DepletedNow(old_uses, new_uses)
                      log1 == IF depleted
                              THEN add_log(acc.logs, "disposal", item_id, "Out of Uses")
                              ELSE acc.logs
                  IN  IF item.usage_limit = NoneInt \/ item.uses_remaining = NoneInt
                      THEN UsageLoop(k + 1, request, acc)
                      ELSE IF total_uses = NoneInt
                      THEN [acc EXCEPT !.failed = TRUE]
                      ELSE UsageLoop(k + 1, request,
                               [acc EXCEPT
                                  !.items = [@ EXCEPT ![item_id].uses_remaining = new_uses,
                                                      ![item_id].is_waste = @ \/ depleted],
                                  !.logs = UsageLogs(log1, item_id, Min(total_uses, old_uses)),
                                  !.used = Append(@, item_id),
                                  !.depleted = IF depleted THEN Append(@, item_id) ELSE @])

\* the expiry scan of simulate_time over the ids in query order
RECURSIVE ExpiryLoop(_, _, _, _)
ExpiryLoop(k, ids, target, acc) ==
    IF k > Len(ids) THEN acc
    ELSE ExpiryLoop(k + 1, ids, target,
             [acc EXCEPT !.items = [@ EXCEPT ![ids[k]].is_waste = TRUE],
                         !.logs = add_log(@, "disposal", ids[k], "Expired"),
                         !.expired = Append(@, ids[k])])

\* an expiry scan that leaves out the items expiring at the target time
expired_items_before(store, target) ==
    {i \in DOMAIN store :
        /\ store[i].expiry_date # NoneInt
        /\ store[i].expiry_date < target
        /\ ~ store[i].is_waste}

\* simulate_time: the rows the expiry scan selects (NULL compares as no match)
expired_items(store, target) ==
    {i \in DOMAIN store :
        /\ store[i].expiry_date # NoneInt
        /\ store[i].expiry_date <= target
        /\ ~ store[i].is_waste}

\* SimulationService.simulate_time on the store and the log
simulate_time(store, log, request) ==
    LET a1 == UsageLoop(1, request,
                  [items |-> store, logs |-> log, failed |-> FALSE,
                   used |-> <<>>, depleted |-> <<>>, expired |-> <<>>])
    IN  IF a1.failed THEN a1
        ELSE ExpiryLoop(1, InIdOrder(expired_items(a1.items, target_date(request))),
                 target_date(request), a1)

\* POST /api/simulate/day (SimulationService.simulate_time)
Simulate(request) ==
    /\ Served
    /\ IF ~ TimeModeSet(request)
       THEN /\ last' = [op |-> "Simulate", request |-> request, success |-> FALSE]
            /\ UNCHANGED <<items, logs>>
       ELSE LET r == simulate_time(items, logs, request)
            IN  IF r.failed
                THEN /\ last' = [op |-> "Simulate", request |-> request, success |-> FALSE]
                     /\ UNCHANGED <<items, logs>>
                ELSE /\ items' = r.items
                     /\ logs' = r.logs
                     /\ last' = [op |-> "Simulate", request |-> request, success |-> TRUE,
                                 newDate |-> target_date(request),
                                 itemsUsedToday |-> r.used,
                                 itemsDepletedToday |-> r.depleted,
                                 itemsExpiredToday |-> r.expired]
    /\ UNCHANGED <<containers, container_states, space_utilization, now>>

\* identify_waste_items that reports every flagged item as expired
WasteReason_expired(item) == "Expired"

\* identify_waste_items: the reason reported for a flagged item
WasteReason(item) ==
    IF item.expiry_date # NoneInt /\ item.expiry_date <= now THEN "Expired" ELSE "Out of Uses"

\* a loop of identify_waste_items that flags the items and logs nothing
RECURSIVE IdentifyLoop_silent(_, _, _)
IdentifyLoop_silent(k, ids, acc) ==
    IF k > Len(ids) THEN acc
    ELSE IdentifyLoop_silent(k + 1, ids,
             [items |-> [acc.items EXCEPT ![ids[k]].is_waste = TRUE],
              logs |-> acc.logs])

\* the loop of identify_waste_items over the ids in query order
RECURSIVE IdentifyLoop(_, _, _)
IdentifyLoop(k, ids, acc) ==
    IF k > Len(ids) THEN acc
    ELSE IdentifyLoop(k + 1, ids,
             [items |-> [acc.items EXCEPT ![ids[k]].is_waste = TRUE],
              logs |-> add_log(acc.logs, "disposal", ids[k], WasteReason(acc.items[ids[k]]))])

\* a query of identify_waste_items that does not skip the rows already flagged
identify_query_all(store, current_date) ==
    {i \in DOMAIN store :
        \/ store[i].expiry_date # NoneInt /\ store[i].expiry_date <= current_date
        \/ store[i].usage_limit # NoneInt /\ store[i].uses_remaining <= 0}

\* the rows identify_waste_items selects
identify_query(store, current_date) ==
    {i \in DOMAIN store :
        /\ \/ store[i].expiry_date # NoneInt /\ store[i].expiry_date <= current_date
           \/ store[i].usage_limit # NoneInt /\ store[i].uses_remaining <= 0
        /\ ~ store[i].is_waste}

\* GET /api/waste/identify (WasteManagementService.identify_waste_items);
\* the answer also records the time of the call and the request before it
WasteIdentify ==
    /\ Served
    /\ LET found == InIdOrder(identify_query(items, now))
           r == IdentifyLoop(1, found, [items |-> items, logs |-> logs])
       IN  /\ items' = r.items
           /\ logs' = r.logs
           /\ last' = [op |-> "WasteIdentify", success |-> TRUE,
                       wasteItems |-> found,
                       reasons |-> [k \in 1..Len(found) |-> WasteReason(items[found[k]])],
                       at |-> now, after |-> last.op]
    /\ UNCHANGED <<containers, container_states, space_utilization, now>>

\* the loop of complete_undocking over the ids in query order
RECURSIVE UndockLogs(_, _, _)
UndockLogs(k, ids, log) ==
    IF k > Len(ids) THEN log
    ELSE UndockLogs(k + 1, ids, add_log(log, "disposal", ids[k], "None"))

\* a query of complete_undocking that takes the waste of every container
undocking_query_any(store, undocking_container_id) ==
    {i \in DOMAIN store : store[i].is_waste}

\* the rows complete_undocking selects
undocking_query(store, undocking_container_id) ==
    {i \in DOMAIN store :
        /\ store[i].container_id = undocking_container_id
        /\ store[i].is_waste}

\* POST /api/waste/complete-undocking (WasteManagementService.complete_undocking)
CompleteUndocking(undocking_container_id) ==
    /\ Served
    /\ LET gone == undocking_query(items, undocking_container_id)
       IN  /\ items' = [i \in DOMAIN items \ gone |-> items[i]]
           /\ logs' = UndockLogs(1, InIdOrder(gone), logs)
           /\ last' = [op |-> "CompleteUndocking", container |-> undocking_container_id,
                       success |-> TRUE]
    /\ UNCHANGED <<containers, container_states, space_utilization, now>>

\* the entry of the return manifest for an item
ReturnItem(item, current_date) ==
    [itemId |-> item.itemId,
     reason |-> IF item.expiry_date <= current_date THEN "Expired" ELSE "Out of Uses"]

\* a loop of plan_waste_return that passes over an item that is too heavy
\* and goes on with the next one
RECURSIVE ReturnLoop_skipping(_, _, _, _, _)
ReturnLoop_skipping(k, waste_items, store, maxWeight, acc) ==
    IF k > Len(waste_items) \/ acc.failed THEN acc
    ELSE LET item == store[waste_items[k]]
         IN  IF acc.total_weight + item.mass > maxWeight
             THEN ReturnLoop_skipping(k + 1, waste_items, store, maxWeight, acc)
             ELSE IF item.expiry_date = NoneInt
             THEN [acc EXCEPT !.failed = TRUE]
             ELSE ReturnLoop_skipping(k + 1, waste_items, store, maxWeight,
                      [acc EXCEPT !.return_items = Append(@, ReturnItem(item, now)),
                                  !.total_volume = @ + Volume(item),
                                  !.total_weight = @ + item.mass])

\* the loop of plan_waste_return over the sorted waste items from the k-th
\* on: it breaks at the first item that would go over maxWeight;
\* acc.failed: item.expiry_date <= datetime.utcnow() raised on None
RECURSIVE ReturnLoop(_, _, _, _, _)
ReturnLoop(k, waste_items, store, maxWeight, acc) ==
    IF k > Len(waste_items) \/ acc.failed THEN acc
    ELSE LET item == store[waste_items[k]]
         IN  IF acc.total_weight + item.mass > maxWeight
             THEN acc
             ELSE IF item.expiry_date = NoneInt
             THEN [acc EXCEPT !.failed = TRUE]
             ELSE ReturnLoop(k + 1, waste_items, store, maxWeight,
                      [acc EXCEPT !.return_items = Append(@, ReturnItem(item, now)),
                                  !.total_volume = @ + Volume(item),
                                  !.total_weight = @ + item.mass])

\* WasteManagementService.plan_waste_return: the waste rows in query order,
\* sorted by (start depth, start height); the sort key raises on a waste
\* item that has no position
plan_waste_return(store, maxWeight) ==
    LET waste_items == InIdOrder({i \in DOMAIN store : store[i].is_waste})
        sorted == Values(SortedByKey([k \in 1..Len(waste_items) |->
                      [key |-> << store[waste_items[k]].position.startCoordinates.depth,
                                  store[waste_items[k]].position.startCoordinates.height,
                                  0 >>,
                       value |-> waste_items[k]]]))
        acc == [failed |-> FALSE, return_items |-> <<>>,
                total_volume |-> 0, total_weight |-> 0]
    IN  IF \E k \in 1..Len(waste_items) : store[waste_items[k]].position = NoPosition
        THEN [acc EXCEPT !.failed = TRUE]
        ELSE ReturnLoop(1, sorted, store, maxWeight, acc)

\* POST /api/waste/return-plan (get_return_plan); undockingContainerId and
\* undockingDate are only copied into the answer
ReturnPlan(maxWeight) ==
    /\ Served
    /\ LET r == plan_waste_return(items, maxWeight)
       IN  last' = IF r.failed
                   THEN [op |-> "ReturnPlan", success |-> FALSE, maxWeight |-> maxWeight]
                   ELSE [op |-> "ReturnPlan", success |-> TRUE, maxWeight |-> maxWeight,
                         returnItems |-> r.return_items,
                         totalVolume |-> r.total_volume,
                         totalWeight |-> r.total_weight]
    /\ UNCHANGED <<items, containers, logs, container_states, space_utilization, now>>

(***************************************************************************)
(* Calls that stop part-way.  LoggingService.add_log ends with db.commit(), *)
(* which writes every change the session holds, so a call that stops after *)
(* its n-th log row (the next database statement raises, or the server     *)
(* process ends) leaves in the database file the session as it was at that *)
(* n-th commit; closing the session discards only what came after it.      *)
(***************************************************************************)
Commit(store, log) == [items |-> store, logs |-> log]

\* the commits of the log rows that acc1 appended to the rows of acc0
RowCommits(acc0, acc1) ==
    [n \in 1..(Len(acc1.logs) - Len(acc0.logs)) |->
        Commit(acc1.items, SubSeq(acc1.logs, 1, Len(acc0.logs) + n))]

\* the session of simulate_time after the first j usage records
UsageSession(store, log, request, j) ==
    UsageLoop(1, [request EXCEPT !.items_to_be_used_per_day = SubSeq(@, 1, j)],
        [items |-> store, logs |-> log, failed |-> FALSE,
         used |-> <<>>, depleted |-> <<>>, expired |-> <<>>])

\* the commits of simulate_time from the j-th usage record on
RECURSIVE UsageCommits(_, _, _, _)
UsageCommits(store, log, request, j) ==
    IF j > Len(request.items_to_be_used_per_day) THEN <<>>
    ELSE RowCommits(UsageSession(store, log, request, j - 1),
                    UsageSession(store, log, request, j))
         \o UsageCommits(store, log, request, j + 1)

\* the commits of a call of simulate_time that does not raise, in order
simulate_time_commits(store, log, request) ==
    LET a1 == UsageSession(store, log, request, Len(request.items_to_be_used_per_day))
        ids == InIdOrder(expired_items(a1.items, target_date(request)))
    IN  UsageCommits(store, log, request, 1)
        \o [m \in 1..Len(ids) |->
               LET a2 == ExpiryLoop(1, SubSeq(ids, 1, m), target_date(request), a1)
               IN  Commit(a2.items, a2.logs)]

\* POST /api/simulate/day stopped after the n-th commit
SimulateStopped(request, n) ==
    /\ Served
    /\ TimeModeSet(request)
    /\ ~ simulate_time(items, logs, request).failed
    /\ LET commits == simulate_time_commits(items, logs, request)
       IN  /\ n \in 1..Len(commits)
           /\ items' = commits[n].items
           /\ logs' = commits[n].logs
    /\ last' = [op |-> "Simulate", request |-> request, success |-> FALSE, commits |-> n]
    /\ UNCHANGED <<containers, container_states, space_utilization, now>>

\* GET /api/waste/identify stopped after the n-th commit
WasteIdentifyStopped(n) ==
    /\ Served
    /\ LET ids == InIdOrder(identify_query(items, now))
       IN  /\ n \in 1..Len(ids)
           /\ LET r == IdentifyLoop(1, SubSeq(ids, 1, n), [items |-> items, logs |-> logs])
              IN  items' = r.items /\ logs' = r.logs
    /\ last' = [op |-> "WasteIdentify", success |-> FALSE, commits |-> n]
    /\ UNCHANGED <<containers, container_states, space_utilization, now>>

\* POST /api/waste/complete-undocking stopped after the n-th commit: the
\* n-th log row is written, the delete of the n-th item is not
CompleteUndockingStopped(undocking_container_id, n) ==
    /\ Served
    /\ LET ids == InIdOrder(undocking_query(items, undocking_container_id))
       IN  /\ n \in 1..Len(ids)
           /\ items' = [i \in DOMAIN items \ {ids[k] : k \in 1..(n - 1)} |-> items[i]]
           /\ logs' = UndockLogs(1, SubSeq(ids, 1, n), logs)
    /\ last' = [op |-> "CompleteUndocking", container |-> undocking_container_id,
                success |-> FALSE, commits |-> n]
    /\ UNCHANGED <<containers, container_states, space_utilization, now>>

(***************************************************************************)
(* Requests of the model                                                   *)
(***************************************************************************)
Batches == {[k \in 1..Len(s) |-> RequestItem(s[k])] :
               s \in Arrangements(ItemIds, MaxBatch) \ {<<>>}}

\* one container of any stated dimensions, or the two containers as stored
ContainerLists ==
    {<<c>> : c \in RequestContainers}
    \cup {<<ContainerRows["cA"], ContainerRows["cB"]>>,
          <<ContainerRows["cB"], ContainerRows["cA"]>>}

UsageLists == UNION {[1..k -> ItemIds] : k \in 0..MaxUsages}

\* a day count below zero (the schema takes any integer)
DaysBack == -2

\* usage lists of at most one record
ShortUsageLists == {u \in UsageLists : Len(u) <= 1}

\* one time mode, no time mode (num_of_days absent or 0), both time modes,
\* and a negative day count
SimulationRequests ==
    {SimulationRequest(n, NoneInt, u) : n \in 1..MaxDays, u \in UsageLists}
    \cup {SimulationRequest(NoneInt, t, u) : t \in 1..(MaxNow + 1), u \in UsageLists}
    \cup {SimulationRequest(NoneInt, NoneInt, <<>>), SimulationRequest(0, NoneInt, <<>>)}
    \cup {SimulationRequest(1, MaxNow + 1, u) : u \in ShortUsageLists}
    \cup {SimulationRequest(DaysBack, NoneInt, u) : u \in ShortUsageLists}

\* the requests of the specification of the whole system: batches of one
\* item, simulations of one day or to the next day with at most one usage record
SingleBatches == {b \in Batches : Len(b) = 1}

ShortSimulationRequests ==
    {r \in SimulationRequests :
        /\ Len(r.items_to_be_used_per_day) <= 1
        /\ r.num_of_days \in {NoneInt, 1}
        /\ r.to_timestamp \in {NoneInt, 1}}

\* the weight limits of the return plan requests
MaxWeights == {4, 8}

\* the whole system
Next ==
    \/ Tick
    \/ Within(MaxOps) /\ ImportItems
    \/ \E b \in SingleBatches, c \in ContainerLists : Within(MaxOps) /\ PlaceBatch(b, c)
    \/ \E i \in ItemIds : Within(MaxOps) /\ Search(i)
    \/ \E i \in ItemIds, c \in ContainerIds, p \in PlacePositions :
           Within(MaxOps) /\ Place(i, c, p)
    \/ \E i \in ItemIds : Within(MaxOps) /\ Retrieve(i)
    \/ \E r \in ShortSimulationRequests : Within(MaxOps) /\ Simulate(r)
    \/ Within(MaxOps) /\ WasteIdentify
    \/ \E c \in ContainerIds : Within(MaxOps) /\ CompleteUndocking(c)
    \/ \E w \in MaxWeights : Within(MaxOps) /\ ReturnPlan(w)

Spec == Init /\ [][Next]_vars

\* the placement planner on its own: placement requests over the item store
NextPlanner ==
    \/ Within(MaxOps) /\ ImportItems
    \/ \E b \in Batches, c \in ContainerLists : Within(MaxOps) /\ PlaceBatch(b, c)

SpecPlanner == Init /\ [][NextPlanner]_vars

\* the positions of the layouts that are searched: three depths
SearchPositions == PlacePositions \cup {Box(0, 2, 0, 1, 1, 1)}

\* the retrieval planner: searches over the layouts that Place requests make
NextSearch ==
    \/ \E i \in ItemIds, c \in ContainerIds, p \in SearchPositions :
           Within(MaxSearchOps) /\ Place(i, c, p)
    \/ \E i \in ItemIds : Within(MaxSearchOps) /\ Retrieve(i)
    \/ \E i \in ItemIds : Within(MaxSearchOps) /\ Search(i)

SpecSearch == Init /\ [][NextSearch]_vars

\* the item store and the event log: every request that changes them but the
\* placement request
NextStore ==
    \/ Tick
    \/ Within(MaxOps) /\ ImportItems
    \/ \E i \in ItemIds, c \in ContainerIds, p \in PlacePositions :
           Within(MaxOps) /\ Place(i, c, p)
    \/ \E i \in ItemIds : Within(MaxOps) /\ Retrieve(i)
    \/ \E r \in SimulationRequests : Within(MaxOps) /\ Simulate(r)
    \/ Within(MaxOps) /\ WasteIdentify
    \/ \E c \in ContainerIds : Within(MaxOps) /\ CompleteUndocking(c)

SpecStore == Init /\ [][NextStore]_vars

\* the simulations of a day count alone with at most one usage record
DayRequests ==
    {r \in SimulationRequests :
        /\ r.num_of_days \in 1..MaxDays
        /\ r.to_timestamp = NoneInt
        /\ Len(r.items_to_be_used_per_day) <= 1}

\* the waste life cycle with calls that may stop part-way
NextStopped ==
    \/ Tick
    \/ \E i \in ItemIds, c \in ContainerIds, p \in PlacePositions :
           Within(MaxOps) /\ Place(i, c, p)
    \/ \E r \in ShortSimulationRequests : Within(MaxOps) /\ Simulate(r)
    \/ Within(MaxOps) /\ WasteIdentify
    \/ \E c \in ContainerIds : Within(MaxOps) /\ CompleteUndocking(c)
    \/ \E r \in DayRequests, n \in 1..(MaxUsages * (MaxDays + 1) + 1) :
           Within(MaxOps) /\ SimulateStopped(r, n)
    \/ \E n \in 1..Cardinality(ItemIds) : Within(MaxOps) /\ WasteIdentifyStopped(n)
    \/ \E c \in ContainerIds, n \in 1..Cardinality(ItemIds) :
           Within(MaxOps) /\ CompleteUndockingStopped(c, n)

SpecStopped == Init /\ [][NextStopped]_vars

\* the positions of the Place requests of the waste life cycle: two at the
\* opening, one above the other, and one behind
ReturnPositions ==
    { Box(0, 0, 0, 1, 1, 1), Box(0, 0, 1, 1, 1, 1), Box(0, 1, 0, 2, 1, 1) }

\* the simulations of MaxDays days with at most one usage record
ReturnRequests == {r \in DayRequests : r.num_of_days = MaxDays}

\* the return planner: the items are stowed in cA, become waste (i1 by use,
\* i2 by expiry, i3 by identification) and are planned for return
NextReturn ==
    \/ Tick
    \/ \E i \in ItemIds, p \in ReturnPositions : Within(MaxReturnOps) /\ Place(i, "cA", p)
    \/ Within(MaxReturnOps) /\ Simulate(SimulationRequest(MaxDays, NoneInt, <<"i1">>))
    \/ Within(MaxReturnOps) /\ WasteIdentify
    \/ \E w \in MaxWeights : Within(MaxReturnOps) /\ ReturnPlan(w)

SpecReturn == Init /\ [][NextReturn]_vars

\* undocking: items are stowed in either container, become waste and leave
\* with their container
NextUndock ==
    \/ Tick
    \/ \E i \in ItemIds, c \in ContainerIds, p \in ReturnPositions :
           Within(MaxUndockOps) /\ Place(i, c, p)
    \/ \E r \in ReturnRequests : Within(MaxUndockOps) /\ Simulate(r)
    \/ Within(MaxUndockOps) /\ WasteIdentify
    \/ \E c \in ContainerIds : Within(MaxUndockOps) /\ CompleteUndocking(c)

SpecUndock == Init /\ [][NextUndock]_vars

\* the position scan on its own. The containers a scan is asked about
ScanContainers == {Container("cA", "Lab", 3, 2, 2), Container("cA", "Lab", 2, 2, 1)}

\* the item shapes: every side from 1 to MaxSide
ScanItems ==
    {[itemId |-> "i1", width |-> w, depth |-> d, height |-> h] :
        w \in 1..MaxSide, d \in 1..MaxSide, h \in 1..MaxSide}

\* the boxes of whole coordinates, with sides up to MaxSide, inside the
\* larger container
ScanBoxes ==
    {Box(x, y, z, w, d, h) :
        x \in 0..2, y \in 0..1, z \in 0..1,
        w \in 1..MaxSide, d \in 1..MaxSide, h \in 1..MaxSide}
    \cap {b \in [startCoordinates : [width : 0..3, depth : 0..2, height : 0..2],
                 endCoordinates : [width : 0..3, depth : 0..2, height : 0..2]] : TRUE}

\* the planner holds no box or one box for "cA" when the scans start
InitScan ==
    /\ items = [i \in ItemIds |-> ImportedItem(ItemRows[i])]
    /\ containers = ContainerRows
    /\ logs = <<>>
    /\ container_states \in
           {[c \in ContainerIds |-> IF c = "cA" THEN s ELSE <<>>] :
               s \in {<<>>} \cup {<<[itemId |-> "i2", position |-> b]>> : b \in ScanBoxes}}
    /\ space_utilization = [c \in {} |-> 0]
    /\ now = 0
    /\ last = [op |-> "start"]
    /\ nops = 0

\* one call of _find_position_in_container; a position that is found is
\* entered into the planner's boxes by _update_container_state
FindPosition(item, container) ==
    LET container_state == container_states[container.id]
        position == _find_position_in_container(item, container, container_state)
    IN  /\ Served
        /\ container_states' =
               IF position = NoPosition THEN container_states
               ELSE _update_container_state(container_states,
                        ItemPlacement(item.itemId, container.id, position))
        /\ last' = [op |-> "FindPosition", item |-> item, container |-> container,
                    container_state |-> container_state, position |-> position]
        /\ UNCHANGED <<items, containers, logs, space_utilization, now>>

NextScan ==
    \E item \in ScanItems, container \in ScanContainers :
        Within(MaxScanOps) /\ FindPosition(item, container)

SpecScan == InitScan /\ [][NextScan]_vars

(***************************************************************************)
(* Properties                                                              *)
(***************************************************************************)
\* the box of a position lies inside the box of the container
InsideContainer(position, container) ==
    /\ position.startCoordinates.width >= 0
    /\ position.startCoordinates.depth >= 0
    /\ position.startCoordinates.height >= 0
    /\ position.endCoordinates.width <= container.width
    /\ position.endCoordinates.depth <= container.depth
    /\ position.endCoordinates.height <= container.height

\* the two boxes share interior volume
SharesInterior(p, q) ==
    /\ p.startCoordinates.width < q.endCoordinates.width
    /\ q.startCoordinates.width < p.endCoordinates.width
    /\ p.startCoordinates.depth < q.endCoordinates.depth
    /\ q.startCoordinates.depth < p.endCoordinates.depth
    /\ p.startCoordinates.height < q.endCoordinates.height
    /\ q.startCoordinates.height < p.endCoordinates.height

\* C1: in every reachable state every item that has a placement lies entirely
\* inside the box of its container and shares no interior volume with any
\* other non-waste item placed in the same container
C1_PlacedInsideAndDisjoint ==
    \A i \in DOMAIN items :
        items[i].container_id # NoneId =>
            /\ InsideContainer(items[i].position, containers[items[i].container_id])
            /\ \A j \in DOMAIN items \ {i} :
                   (/\ items[j].container_id = items[i].container_id
                    /\ ~ items[j].is_waste)
                   => ~ SharesInterior(items[i].position, items[j].position)

\* the container of the last placement request that has the given id
RequestContainer(id) ==
    LET k == CHOOSE k \in 1..Len(last.containers) : last.containers[k].id = id
    IN  last.containers[k]

\* C2: the assignments returned by one placement request are pairwise free of
\* overlap within each container and every assigned pose lies inside its
\* container
C2_BatchAssignmentsDisjoint ==
    last.op = "PlaceBatch" =>
        \A k \in 1..Len(last.placements) :
            /\ InsideContainer(last.placements[k].position,
                               RequestContainer(last.placements[k].containerId))
            /\ \A l \in 1..Len(last.placements) :
                   (l # k /\ last.placements[l].containerId = last.placements[k].containerId)
                   => ~ SharesInterior(last.placements[k].position,
                                       last.placements[l].position)

\* a placement request has returned two assignments in one container
C2_TwoInOneContainer ==
    /\ last.op = "PlaceBatch"
    /\ \E k, l \in 1..Len(last.placements) :
           k # l /\ last.placements[k].containerId = last.placements[l].containerId

\* the step serves a request of the given kind
Answered(op) == nops' = nops + 1 /\ last'.op = op

\* the item of the last placement request that has the given id
BatchItem(id) ==
    LET k == CHOOSE k \in 1..Len(last.items) : last.items[k].itemId = id
    IN  last.items[k]

\* the placements of a placement response follow the key order of their items
InKeyOrder(response) ==
    \A k \in 1..(Len(response.placements) - 1) :
        LET a == CHOOSE a \in 1..Len(response.items) :
                     response.items[a].itemId = response.placements[k].itemId
            b == CHOOSE b \in 1..Len(response.items) :
                     response.items[b].itemId = response.placements[k + 1].itemId
        IN  ~ KeyLess(SortKey(response.items[b]), SortKey(response.items[a]))

\* the batches that hold the same items as request_items in another order
Reorderings(request_items) ==
    {b \in Batches :
        /\ b # request_items
        /\ {b[k] : k \in 1..Len(b)} = {request_items[k] : k \in 1..Len(request_items)}}

C5_FailedStrategyChangesNothing ==
    [][ (Answered("PlaceBatch") /\ last'.rearrangements = <<>>)
        => \A c \in ContainerIds :
               /\ Len(container_states'[c]) >= Len(container_states[c])
               /\ SubSeq(container_states'[c], 1, Len(container_states[c]))
                      = container_states[c] ]_vars

\* C6: every item of a placement request is in exactly one of the lists
\* placements and unplacedItems of the response, with at most one assignment
C6_PlacedOrUnplaced ==
    last.op = "PlaceBatch" =>
        LET placed == [k \in 1..Len(last.placements) |-> last.placements[k].itemId]
            placed_ids == {placed[k] : k \in 1..Len(placed)}
            unplaced_ids == {last.unplacedItems[k] : k \in 1..Len(last.unplacedItems)}
        IN  /\ NoRepeat(placed)
            /\ NoRepeat(last.unplacedItems)
            /\ placed_ids \cap unplaced_ids = {}
            /\ placed_ids \cup unplaced_ids = {last.items[k].itemId : k \in 1..Len(last.items)}

\* the item processed first could not be placed and the item after it was
C6_LaterItemStillPlaced ==
    /\ last.op = "PlaceBatch"
    /\ Len(last.items) = 2
    /\ last.unplacedItems = << _prepare_items(last.items)[1].itemId >>
    /\ Len(last.placements) = 1
    /\ last.placements[1].itemId = _prepare_items(last.items)[2].itemId

\* the rectangles of two positions in the plane of the open face (width x
\* height) share area
RectanglesShareArea(p, q) ==
    /\ p.startCoordinates.width < q.endCoordinates.width
    /\ q.startCoordinates.width < p.endCoordinates.width
    /\ p.startCoordinates.height < q.endCoordinates.height
    /\ q.startCoordinates.height < p.endCoordinates.height

\* the closed rectangles of two positions in that plane have a common point
RectanglesMeet(p, q) ==
    /\ p.startCoordinates.width <= q.endCoordinates.width
    /\ q.startCoordinates.width <= p.endCoordinates.width
    /\ p.startCoordinates.height <= q.endCoordinates.height
    /\ q.startCoordinates.height <= p.endCoordinates.height

\* item b is ahead of the placed item t in its container: same container,
\* not waste, another item, a smaller start depth
Ahead(b, t) ==
    /\ b # t
    /\ items[b].container_id = items[t].container_id
    /\ ~ items[b].is_waste
    /\ items[b].position.startCoordinates.depth < items[t].position.startCoordinates.depth

\* the blocker set of the placed item t
Blockers(t) ==
    {b \in DOMAIN items : Ahead(b, t) /\ RectanglesShareArea(items[b].position, items[t].position)}

\* the last request was a search that found a placed item
SearchedPlaced ==
    /\ last.op = "Search"
    /\ last.found
    /\ items[last.item_id].container_id # NoneId

\* the items of the remove steps of the last search
Removed ==
    {last.retrievalSteps[n].itemId :
        n \in {m \in 1..Len(last.retrievalSteps) : last.retrievalSteps[m].action = "remove"}}

\* C7: for a placed target with k blockers the retrieval steps are 2k+1 steps
\* numbered 1..2k+1: k remove steps, one per blocker, then the retrieve step
\* of the target, then k place steps in the reverse of the remove order
C7_RetrievalSteps ==
    SearchedPlaced =>
        LET steps == last.retrievalSteps
            k == Cardinality(Blockers(last.item_id))
        IN  /\ Len(steps) = 2 * k + 1
            /\ \A n \in 1..Len(steps) : steps[n].step = n
            /\ \A n \in 1..k : steps[n].action = "remove"
            /\ {steps[n].itemId : n \in 1..k} = Blockers(last.item_id)
            /\ steps[k + 1].action = "retrieve"
            /\ steps[k + 1].itemId = last.item_id
            /\ \A n \in 1..k :
                   /\ steps[k + 1 + n].action = "place"
                   /\ steps[k + 1 + n].itemId = steps[k + 1 - n].itemId

\* a search returned the five steps of a target with two blockers
C7_TwoBlockers == SearchedPlaced /\ Len(last.retrievalSteps) = 5

\* C8 (amended): an item is in the blocker set computed for a placed target
\* exactly when it is in the same container, not waste, not the target, has
\* a smaller start depth, and its width x height rectangle shares area with
\* the target's (rectangles that only touch do not count)
C8_BlockerSet ==
    SearchedPlaced =>
        \A b \in DOMAIN items :
            b \in Removed
            <=> (Ahead(b, last.item_id)
                 /\ RectanglesShareArea(items[b].position, items[last.item_id].position))

\* C8 (as stated): the same with the closed rectangles having a common point
C8_BlockerSetClosed ==
    SearchedPlaced =>
        \A b \in DOMAIN items :
            b \in Removed
            <=> (Ahead(b, last.item_id)
                 /\ RectanglesMeet(items[b].position, items[last.item_id].position))

\* a search of a target with an item ahead of it whose rectangle only touches
\* the target's, and with a blocker
C8_TouchingAndBlocking ==
    /\ SearchedPlaced
    /\ Removed # {}
    /\ \E b \in DOMAIN items :
           /\ Ahead(b, last.item_id)
           /\ RectanglesMeet(items[b].position, items[last.item_id].position)
           /\ ~ RectanglesShareArea(items[b].position, items[last.item_id].position)

\* C9: Retrieve of a stored item that has a usage limit leaves it with
\* max(0, u - 1) uses; the item is waste afterwards when that is 0 and keeps
\* its waste flag otherwise
C9_RetrieveTakesOneUse ==
    [][ (/\ Answered("Retrieve")
         /\ last'.success
         /\ items[last'.item_id].usage_limit # NoneInt)
        =>
        LET before == items[last'.item_id]
            after == items'[last'.item_id]
        IN  /\ after.uses_remaining = Max(0, before.uses_remaining - 1)
            /\ after.uses_remaining = 0 => after.is_waste
            /\ after.uses_remaining # 0 => after.is_waste = before.is_waste ]_vars

\* a Retrieve took the last use of i1 and made it waste
C9_LastUseTaken ==
    /\ last.op = "Retrieve"
    /\ last.success
    /\ last.item_id = "i1"
    /\ items["i1"].uses_remaining = 0
    /\ items["i1"].is_waste

\* the log rows appended by the step
NewLogs == SubSeq(logs', Len(logs) + 1, Len(logs'))

\* C10: after a simulation of N >= 1 days every item named in the usage
\* records that was not waste and has a usage limit has max(0, u - min(N, u))
\* uses, and is waste with a new disposal row "Out of Uses" exactly when
\* that is 0
C10_SimulateUses ==
    [][ (/\ Answered("Simulate")
         /\ last'.success
         /\ last'.request.num_of_days >= 1)
        =>
        \A k \in 1..Len(last'.request.items_to_be_used_per_day) :
            LET i == last'.request.items_to_be_used_per_day[k]
                N == last'.request.num_of_days
            IN  (/\ i \in DOMAIN items
                 /\ ~ items[i].is_waste
                 /\ items[i].usage_limit # NoneInt)
                =>
                LET u == items[i].uses_remaining
                IN  /\ items'[i].uses_remaining = Max(0, u - Min(N, u))
                    /\ items'[i].uses_remaining = 0
                       <=> (/\ items'[i].is_waste
                            /\ \E n \in 1..Len(NewLogs) :
                                   NewLogs[n] = Log("disposal", i, "Out of Uses")) ]_vars

\* the request of the step names no time mode, or both
NoOrBothTimeModes(request) ==
    \/ request.num_of_days = NoneInt /\ request.to_timestamp = NoneInt
    \/ request.num_of_days # NoneInt /\ request.to_timestamp # NoneInt

\* C11: a Simulate request with neither num_of_days nor to_timestamp, or
\* with both, fails, changes no item and appends no log row
C11_TimeModeRequired ==
    [][ (Answered("Simulate") /\ NoOrBothTimeModes(last'.request))
        =>
        (~ last'.success /\ items' = items /\ logs' = logs) ]_vars

\* C12: a Simulate request with only to_timestamp, later than now, completes
\* and takes min(N, u) uses from every item of the usage records that is
\* stored, not waste and has a usage limit, N being the days from now to
\* to_timestamp
C12_ToTimestampMode ==
    [][ (/\ Answered("Simulate")
         /\ last'.request.num_of_days = NoneInt
         /\ last'.request.to_timestamp # NoneInt
         /\ last'.request.to_timestamp > now)
        =>
        /\ last'.success
        /\ \A k \in 1..Len(last'.request.items_to_be_used_per_day) :
               LET i == last'.request.items_to_be_used_per_day[k]
                   N == last'.request.to_timestamp - now
               IN  (/\ i \in DOMAIN items
                    /\ ~ items[i].is_waste
                    /\ items[i].usage_limit # NoneInt)
                   =>
                   items'[i].uses_remaining
                       = items[i].uses_remaining - Min(N, items[i].uses_remaining) ]_vars

\* C13: a Simulate, WasteIdentify or CompleteUndocking call that fails
\* leaves the item store and the log as they were before the call
C13_FailedCallChangesNothing ==
    [][ (/\ nops' = nops + 1
         /\ last'.op \in {"Simulate", "WasteIdentify", "CompleteUndocking"}
         /\ ~ last'.success)
        =>
        (items' = items /\ logs' = logs) ]_vars

\* the members of a sequence
Range(s) == {s[k] : k \in 1..Len(s)}

\* the number of rows of a sequence of log rows that equal row
Count(rows, row) == Cardinality({n \in 1..Len(rows) : rows[n] = row})

\* C14: after a successful Simulate with target time t every item with an
\* expiry <= t is waste; the items reported as expired are, once each, those
\* among them that were not waste when the scan began (not waste before the
\* call and not depleted by it), each with exactly one new disposal row
\* "Expired"; an item without expiry or with a later one gets no such row and
\* is not flagged by the scan
C14_ExpiryScan ==
    [][ (Answered("Simulate") /\ last'.success)
        =>
        LET t == last'.newDate
            due(i) == items[i].expiry_date # NoneInt /\ items[i].expiry_date <= t
            waste_before_scan(i) == items[i].is_waste \/ i \in Range(last'.itemsDepletedToday)
            reported == last'.itemsExpiredToday
        IN  /\ DOMAIN items' = DOMAIN items
            /\ Len(reported) = Cardinality(Range(reported))
            /\ \A i \in DOMAIN items :
                   /\ due(i) => items'[i].is_waste
                   /\ i \in Range(reported) <=> (due(i) /\ ~ waste_before_scan(i))
                   /\ Count(NewLogs, Log("disposal", i, "Expired"))
                          = IF i \in Range(reported) THEN 1 ELSE 0
                   /\ ~ due(i) => (items'[i].is_waste <=> waste_before_scan(i)) ]_vars

\* a simulation to day 1 or later flagged i2, whose expiry is day 1, and
\* reported it as expired
C14_ExpiredByScan ==
    /\ last.op = "Simulate"
    /\ last.success
    /\ last.newDate >= 1
    /\ last.itemsExpiredToday = <<"i2">>
    /\ items["i2"].is_waste

\* C15: every stored item that has a usage limit and no use left is waste
C15_DepletedIsWaste ==
    \A i \in DOMAIN items :
        (items[i].usage_limit # NoneInt /\ items[i].uses_remaining = 0) => items[i].is_waste

\* C16: every stored item that has a usage limit has between 0 and
\* usage_limit uses left
C16_UsesWithinLimit ==
    \A i \in DOMAIN items :
        items[i].usage_limit # NoneInt
        => (0 <= items[i].uses_remaining /\ items[i].uses_remaining <= items[i].usage_limit)

\* the item's expiry has come
Expired(i) == items[i].expiry_date # NoneInt /\ items[i].expiry_date <= now

\* the item has a usage limit and no use left
OutOfUses(i) == items[i].usage_limit # NoneInt /\ items[i].uses_remaining <= 0

\* C17: WasteIdentify returns, once each, exactly the stored items that are
\* not waste and are expired or out of uses; it reports "Expired" for an
\* expired item and "Out of Uses" for one out of uses, flags each of them,
\* appends exactly one disposal row per returned item with that reason, and
\* changes no other item
C17_WasteIdentify ==
    [][ (Answered("WasteIdentify") /\ last'.success)
        =>
        LET due == {i \in DOMAIN items : ~ items[i].is_waste /\ (Expired(i) \/ OutOfUses(i))}
            found == last'.wasteItems
        IN  /\ Range(found) = due
            /\ Len(found) = Cardinality(due)
            /\ \A k \in 1..Len(found) :
                   /\ (Expired(found[k]) /\ ~ OutOfUses(found[k]))
                          => last'.reasons[k] = "Expired"
                   /\ (OutOfUses(found[k]) /\ ~ Expired(found[k]))
                          => last'.reasons[k] = "Out of Uses"
                   /\ last'.reasons[k] \in {"Expired", "Out of Uses"}
                   /\ Count(NewLogs, Log("disposal", found[k], last'.reasons[k])) = 1
            /\ Len(NewLogs) = Len(found)
            /\ DOMAIN items' = DOMAIN items
            /\ \A i \in DOMAIN items :
                   items'[i] = IF i \in due THEN [items[i] EXCEPT !.is_waste = TRUE]
                               ELSE items[i] ]_vars

\* a WasteIdentify on day 1 returned i2 as expired and i3 as out of uses
C17_BothReasons ==
    /\ last.op = "WasteIdentify"
    /\ last.success
    /\ last.wasteItems = <<"i2", "i3">>
    /\ last.reasons = <<"Expired", "Out of Uses">>
    /\ items["i2"].is_waste /\ items["i3"].is_waste

\* C18: a WasteIdentify that follows a WasteIdentify directly, with no
\* expiry falling between the two calls, returns nothing, flags nothing and
\* appends no log row
C18_SecondIdentifyEmpty ==
    [][ (/\ Answered("WasteIdentify") /\ last'.success
         /\ last.op = "WasteIdentify" /\ last.success
         /\ \A i \in DOMAIN items :
                ~ (/\ items[i].expiry_date # NoneInt
                   /\ last.at < items[i].expiry_date
                   /\ items[i].expiry_date <= now))
        =>
        (last'.wasteItems = <<>> /\ items' = items /\ logs' = logs) ]_vars

\* a second WasteIdentify in a row returned nothing although the first had
\* flagged i3: the newest log row is still the disposal row of the first
C18_SecondCallAfterFlagging ==
    /\ last.op = "WasteIdentify"
    /\ last.success
    /\ last.after = "WasteIdentify"
    /\ last.wasteItems = <<>>
    /\ "i3" \in DOMAIN items /\ items["i3"].is_waste
    /\ logs # <<>>
    /\ logs[Len(logs)] = Log("disposal", "i3", "Out of Uses")

\* the waste items in store
Waste == {i \in DOMAIN items : items[i].is_waste}

\* the order of the return plan: (start depth, start height) of a is not
\* behind that of b
NotBehind(a, b) ==
    LET p == items[a].position.startCoordinates
        q == items[b].position.startCoordinates
    IN  p.depth < q.depth \/ (p.depth = q.depth /\ p.height <= q.height)

\* the mass and the volume of a set of stored items
RECURSIVE SumMass(_)
SumMass(S) ==
    IF S = {} THEN 0
    ELSE LET x == CHOOSE y \in S : TRUE IN items[x].mass + SumMass(S \ {x})

RECURSIVE SumVolume(_)
SumVolume(S) ==
    IF S = {} THEN 0
    ELSE LET x == CHOOSE y \in S : TRUE
         IN  items[x].width * items[x].depth * items[x].height + SumVolume(S \ {x})

\* the items of the manifest of the last ReturnPlan, in order
Selected == [k \in 1..Len(last.returnItems) |-> last.returnItems[k].itemId]

\* C19: the items a ReturnPlan selects are a prefix of the waste items in
\* the order of (start depth, start height): they are listed in that order
\* and none is behind an unselected waste item; their total mass is at most
\* maxWeight; when waste is left over, a first item of the rest would go
\* over maxWeight; the manifest's totals are the sums of mass and of volume
\* over the selected items
C19_ReturnPlanPrefix ==
    (last.op = "ReturnPlan" /\ last.success)
    =>
    LET rest == Waste \ Range(Selected)
    IN  /\ Range(Selected) \subseteq Waste
        /\ Len(Selected) = Cardinality(Range(Selected))
        /\ \A j, k \in 1..Len(Selected) : j < k => NotBehind(Selected[j], Selected[k])
        /\ \A i \in Range(Selected), j \in rest : NotBehind(i, j)
        /\ last.totalWeight <= last.maxWeight
        /\ rest # {} =>
               \E j \in rest :
                   /\ \A k \in rest : NotBehind(j, k)
                   /\ last.totalWeight + items[j].mass > last.maxWeight
        /\ last.totalWeight = SumMass(Range(Selected))
        /\ last.totalVolume = SumVolume(Range(Selected))

\* all three items are waste; a plan under maxWeight 8 took i2 (mass 4) at
\* the opening and stopped at i1 (mass 5) behind it, leaving i3 (mass 2),
\* which is not ahead of i1 and would have fitted
C19_StopsAtFirstTooHeavy ==
    /\ last.op = "ReturnPlan"
    /\ last.success
    /\ last.maxWeight = 8
    /\ Selected = <<"i2">>
    /\ last.totalWeight = 4
    /\ Waste = {"i1", "i2", "i3"}
    /\ NotBehind("i2", "i1") /\ ~ NotBehind("i1", "i2")
    /\ NotBehind("i1", "i3")
    /\ last.totalWeight + items["i3"].mass <= last.maxWeight

\* C20: CompleteUndocking(C) deletes exactly the waste items placed in C,
\* appends exactly one disposal row per deleted item and no other row, and
\* leaves every other item and every container as it was; a call that
\* directly repeats a CompleteUndocking(C) changes nothing
C20_CompleteUndocking ==
    [][ (Answered("CompleteUndocking") /\ last'.success)
        =>
        LET c == last'.container
            gone == {i \in DOMAIN items : items[i].is_waste /\ items[i].container_id = c}
        IN  /\ DOMAIN items' = DOMAIN items \ gone
            /\ \A i \in DOMAIN items' : items'[i] = items[i]
            /\ Len(NewLogs) = Cardinality(gone)
            /\ \A i \in gone : Count(NewLogs, Log("disposal", i, "None")) = 1
            /\ containers' = containers
            /\ (last.op = "CompleteUndocking" /\ last.success /\ last.container = c)
                   => (items' = items /\ logs' = logs) ]_vars

\* CompleteUndocking(cA) deleted the waste item i2 placed in cA and left the
\* waste item i3 placed in cB
C20_OtherContainerKept ==
    /\ last.op = "CompleteUndocking"
    /\ last.success
    /\ last.container = "cA"
    /\ "i2" \notin DOMAIN items
    /\ logs # <<>>
    /\ logs[Len(logs)] = Log("disposal", "i2", "None")
    /\ "i3" \in DOMAIN items
    /\ items["i3"].is_waste
    /\ items["i3"].container_id = "cB"

\* C21: the log of a state is an unchanged prefix of the log of every later
\* state: a step only appends rows
C21_LogAppendOnly ==
    [][ Len(logs') >= Len(logs) /\ SubSeq(logs', 1, Len(logs)) = logs ]_vars

\* i3 was placed, became waste and left with its container: its rows,
\* from the placement row on, are still in the log
C21_RowsOutliveItem ==
    /\ last.op = "CompleteUndocking"
    /\ "i3" \in ItemIds \ DOMAIN items
    /\ Len(logs) >= 3
    /\ logs[1] = Log("placement", "i3", "None")
    /\ logs[Len(logs)] = Log("disposal", "i3", "None")

\* C22: a Place request for a stored item that is waste is refused: the
\* item keeps its container and position and no log row is appended
C22_PlaceRefusesWaste ==
    [][ (/\ Answered("Place")
         /\ last'.item_id \in DOMAIN items
         /\ items[last'.item_id].is_waste)
        =>
        (~ last'.success /\ items' = items /\ logs' = logs) ]_vars

\* the boxes the planner holds for a container
HeldBoxes(c) == {container_states[c][k].position : k \in 1..Len(container_states[c])}

\* the positions of the stored non-waste items placed in a container
StoredBoxes(c) ==
    {items[i].position : i \in {j \in DOMAIN items :
                                   ~ items[j].is_waste /\ items[j].container_id = c}}

\* C23: for every container the boxes the planner holds are the positions
\* of the non-waste items stored in it
C23_PlannerMirrorsStore ==
    \A c \in ContainerIds : HeldBoxes(c) = StoredBoxes(c)

\* two boxes have a cell of the unit grid in common
ShareCell(a, b) ==
    \E x \in 0..3, y \in 0..3, z \in 0..3 :
        \A p \in {a, b} :
            /\ p.startCoordinates.width <= x /\ x + 1 <= p.endCoordinates.width
            /\ p.startCoordinates.depth <= y /\ y + 1 <= p.endCoordinates.depth
            /\ p.startCoordinates.height <= z /\ z + 1 <= p.endCoordinates.height

\* the anchors <<h, d, w>> of the whole-number lattice at which the item box
\* is inside the container and shares no cell with an occupied box
FreeAnchors(item, container, container_state) ==
    {a \in (0..container.height) \X (0..container.depth) \X (0..container.width) :
        LET b == Box(a[3], a[2], a[1], item.width, item.depth, item.height)
        IN  /\ InsideContainer(b, container)
            /\ \A k \in 1..Len(container_state) :
                   ~ ShareCell(b, container_state[k].position)}

\* a comes before b, or is b, in the (h, d, w) lexicographic order
LexLeq(a, b) ==
    \/ a[1] < b[1]
    \/ a[1] = b[1] /\ a[2] < b[2]
    \/ a[1] = b[1] /\ a[2] = b[2] /\ a[3] <= b[3]

AnchorOf(position) ==
    <<position.startCoordinates.height, position.startCoordinates.depth,
      position.startCoordinates.width>>

\* C24: the scan returns the item box at the least free lattice anchor in
\* (h, d, w) order, returns none exactly when there is no free anchor, and
\* answers the anchor (0,0,0) in an empty container that fits the item
C24_FirstFreePose ==
    last.op = "FindPosition" =>
        LET free == FreeAnchors(last.item, last.container, last.container_state)
        IN  /\ (last.position = NoPosition) <=> (free = {})
            /\ free # {} =>
                  /\ AnchorOf(last.position) \in free
                  /\ \A b \in free : LexLeq(AnchorOf(last.position), b)
                  /\ last.position =
                        Box(AnchorOf(last.position)[3], AnchorOf(last.position)[2],
                            AnchorOf(last.position)[1],
                            last.item.width, last.item.depth, last.item.height)
            /\ (last.container_state = <<>> /\ free # {}) =>
                  AnchorOf(last.position) = <<0, 0, 0>>

\* the scan answered an anchor that is not the origin, with two boxes held,
\* though a free anchor further left lies deeper and another lies higher
C24_OrderDecides ==
    /\ last.op = "FindPosition"
    /\ last.position # NoPosition
    /\ Len(last.container_state) >= 2
    /\ LET free == FreeAnchors(last.item, last.container, last.container_state)
           a == AnchorOf(last.position)
       IN  /\ \E b \in free : b[1] = a[1] /\ b[2] > a[2] /\ b[3] < a[3]
           /\ \E b \in free : b[1] > a[1] /\ b[3] < a[3]

\* the item ids of the remove steps of a plan, in plan order
RemovedIds(steps) ==
    LET isRemove(st) == st.action = "remove"
        removes == SelectSeq(steps, isRemove)
    IN  [k \in 1..Len(removes) |-> removes[k].itemId]

\* C25: the remove steps of a retrieval plan are in ascending start depth,
\* and blockers of equal start depth are in ascending priority
C25_RemoveOrder ==
    (last.op = "Search" /\ last.found) =>
        LET ids == RemovedIds(last.retrievalSteps)
            d(k) == items[ids[k]].position.startCoordinates.depth
        IN  \A k, l \in 1..Len(ids) :
                k < l =>
                    /\ d(k) <= d(l)
                    /\ d(k) = d(l) => items[ids[k]].priority <= items[ids[l]].priority

\* C26: a ReturnPlan call answers with a plan in every store state, whether
\* or not a waste item lacks an expiry date or a position, and a selected
\* item is listed as "Expired" when its expiry date has passed and as
\* "Out of Uses" otherwise
C26_ReturnPlanAnswers ==
    last.op = "ReturnPlan" =>
        /\ last.success
        /\ \A k \in 1..Len(last.returnItems) :
               LET i == last.returnItems[k].itemId
               IN  last.returnItems[k].reason =
                       IF items[i].expiry_date # NoneInt /\ items[i].expiry_date <= now
                       THEN "Expired" ELSE "Out of Uses"

\* C27: an item that is waste stays waste through every Retrieve, Place,
\* PlaceBatch, Simulate, WasteIdentify and ReturnPlan call; it is only taken
\* out of the store, by CompleteUndocking or by a new ingestion
C27_WasteStaysWaste ==
    [][ \A i \in DOMAIN items :
          (/\ items[i].is_waste
           /\ ~ Answered("CompleteUndocking")
           /\ ~ Answered("ImportItems"))
          => (i \in DOMAIN items' /\ items'[i].is_waste) ]_vars

\* a waste item was stowed by a Place call and is still waste
C27_WasteItemPlaced ==
    /\ last.op = "Place"
    /\ last.success
    /\ items[last.item_id].is_waste
    /\ items[last.item_id].container_id # NoneId

\* the log has a disposal row of item i
HasDisposalRow(i) ==
    \E k \in 1..Len(logs) : logs[k].action_type = "disposal" /\ logs[k].item_id = i

\* C28: every stored item that is waste has a disposal row in the log
C28_WasteHasDisposalRow ==
    \A i \in DOMAIN items : items[i].is_waste => HasDisposalRow(i)

\* the three items are waste, one flagged by depletion and one by expiry in
\* a simulation and one by WasteIdentify, and each has its disposal row
C28_AllFlaggedAndLogged ==
    /\ last.op = "WasteIdentify"
    /\ last.wasteItems = <<"i3">>
    /\ \A i \in ItemIds : i \in DOMAIN items /\ items[i].is_waste /\ HasDisposalRow(i)
    /\ Count(logs, Log("disposal", "i1", "Out of Uses")) = 1
    /\ Count(logs, Log("disposal", "i2", "Expired")) = 1

\* the number of rows among rows that announce item i as waste
Announcements(rows, i) ==
    Count(rows, Log("disposal", i, "Expired")) + Count(rows, Log("disposal", i, "Out of Uses"))

\* C29: a call appends a disposal row announcing an item as waste only when
\* it changes the item's is_waste from false to true, and then exactly one
C29_AnnouncedOnce ==
    [][ \A i \in ItemIds :
          Announcements(NewLogs, i) > 0 =>
              /\ Announcements(NewLogs, i) = 1
              /\ i \in DOMAIN items /\ i \in DOMAIN items'
              /\ ~ items[i].is_waste
              /\ items'[i].is_waste ]_vars

\* C30: a Retrieve of a stored item changes nothing but the item's
\* uses_remaining, its is_waste flag and the log; the item keeps its
\* container and position, and an item without usage limit and the log stay
\* as they were
C30_RetrieveFrame ==
    [][ (Answered("Retrieve") /\ last'.item_id \in DOMAIN items) =>
          LET I == last'.item_id
          IN  /\ DOMAIN items' = DOMAIN items
              /\ \A j \in DOMAIN items \ {I} : items'[j] = items[j]
              /\ items'[I] = [items[I] EXCEPT !.uses_remaining = items'[I].uses_remaining,
                                              !.is_waste = items'[I].is_waste]
              /\ items[I].usage_limit = NoneInt => (items' = items /\ logs' = logs)
              /\ UNCHANGED <<containers, container_states, space_utilization, now>> ]_vars

\* a stowed item was retrieved, has a use left and is still in its box
C30_RetrievedStaysStowed ==
    /\ last.op = "Retrieve"
    /\ last.success
    /\ last.item_id = "i1"
    /\ items["i1"].uses_remaining = 1
    /\ ~ items["i1"].is_waste
    /\ items["i1"].container_id = "cA"
    /\ items["i1"].position = Box(0, 0, 0, 1, 1, 1)
    /\ logs[Len(logs)] = Log("retrieval", "i1", "None")

====
